---------------------------- MODULE Spec2Model ----------------------------
(***************************************************************************)
(* A model of util.py of baixl/text_classification: the vocabulary builder *)
(* (build_vocab), the two line encoders (build_dataset.load_dataset and    *)
(* build_dataset_bert.load_dataset) and the batch iterator                 *)
(* (DatasetIterater).                                                      *)
(*                                                                         *)
(* Four specifications share the module:                                   *)
(*   SpecIter    the batch iterator: construction and repeated __next__;   *)
(*   SpecVocab   build_vocab: one loop iteration per corpus line, then the *)
(*               filter / sort / cut / number / update step;               *)
(*   SpecEncode  build_dataset's encoder: one loop iteration per data line;*)
(*   SpecBert    build_dataset_bert's encoder, likewise.                   *)
(* Text is modelled as sequences of one-character strings, so that strip,  *)
(* split and the tokenizers do what the Python does.                       *)
(***************************************************************************)
EXTENDS Integers, Sequences, FiniteSets, TLC

VARIABLES
    \* ---- DatasetIterater (self.*), and what its caller has seen ----
    batches,        \* self.batches: the encoded dataset
    batch_size,     \* self.batch_size
    n_batches,      \* self.n_batches
    residue,        \* self.residue
    index,          \* self.index
    model_name,     \* self.model_name / config.model_name
    ipc,            \* "new", "ready", or "ZeroDivisionError" (raised by __init__)
    ret,            \* outcome of the last __next__ call
    yielded,        \* batches returned by __next__ since the last StopIteration
    passes,         \* the `yielded` of every pass that ended in StopIteration
    \* ---- build_vocab ----
    ues_word,       \* which tokenizer build_dataset selected
    max_size,       \* build_vocab's max_size argument
    min_freq,       \* build_vocab's min_freq argument
    corpus,         \* the lines of file_path read so far (raw, with their "\n")
    vocab_dict,     \* the counting dict, as its items in insertion order
    vocab,          \* the mapping build_vocab returned (word -> id)
    vpc,            \* "idle", "scan", "built"
    \* ---- the encoders ----
    kind,           \* "idle", "generic" (build_dataset), "bert" (build_dataset_bert)
    pad_size,       \* config.pad_size
    buckets,        \* config.n_gram_vocab
    contents,       \* load_dataset's contents list
    inputs,         \* per record of contents, what it was made from: the raw line
                    \* (generic) or the tokens the sub-word tokenizer returned
    epc             \* "idle", "load", "ValueError"

itVars == <<batches, batch_size, n_batches, residue, index, ipc, ret, yielded, passes>>
vocabVars == <<max_size, min_freq, corpus, vocab_dict, vpc>>
encVars == <<kind, pad_size, buckets, contents, inputs, epc>>
vars == <<itVars, model_name, vocabVars, ues_word, vocab, encVars>>

\* What each part of the program leaves alone.
notIter == <<model_name, vocabVars, ues_word, vocab, encVars>>
notVocab == <<itVars, model_name, encVars>>
notEncode == <<itVars, vocabVars>>

(***************************************************************************)
(* Bounds of the model.                                                    *)
(***************************************************************************)
MaxN == 10          \* largest dataset handed to DatasetIterater
MaxBatch == 11      \* largest batch size handed to DatasetIterater
MaxPasses == 2      \* passes over the iterator that are followed

(***************************************************************************)
(* Generic helpers on sequences.                                           *)
(***************************************************************************)
Min(a, b) == IF a <= b THEN a ELSE b

\* Python's s[lo:hi] for 0 <= lo, 0 <= hi (0-based, end exclusive, clipped).
Slice(s, lo, hi) ==
    LET h == Min(hi, Len(s))
    IN  IF lo >= h THEN <<>> ELSE [i \in 1..(h - lo) |-> s[lo + i]]

\* [v] * n
Repeat(v, n) == [i \in 1..(IF n > 0 THEN n ELSE 0) |-> v]

RECURSIVE Flatten(_)
Flatten(ss) == IF ss = <<>> THEN <<>> ELSE Head(ss) \o Flatten(Tail(ss))

RECURSIVE SumSeq(_)
SumSeq(s) == IF s = <<>> THEN 0 ELSE Head(s) + SumSeq(Tail(s))

(***************************************************************************)
(* DatasetIterater                                                         *)
(***************************************************************************)
ModelNames == {"TextCNN", "FastText", "bert"}

\* "Bert" in self.model_name or "bert" in self.model_name, on ModelNames.
IsBertName(name) == name \in {"bert", "Bert"}

\* The i-th record of a dataset, in the shape the encoders give it for the
\* model family: (ids, label, seq_len), plus (bigram, trigram) for FastText
\* and plus (mask) for the sub-word family.  Records are pairwise distinct.
Rec(name, i) ==
    IF name = "FastText" THEN <<<<i, i + 1>>, i % 2, 2, <<0, i>>, <<0, i + 7>>>>
    ELSE IF IsBertName(name) THEN <<<<101, i>>, i % 2, 2, <<1, 1>>>>
    ELSE <<<<i, i + 1>>, i % 2, 2>>

Dataset(name, n) == [i \in 1..n |-> Rec(name, i)]

Column(datas, k) == [i \in 1..Len(datas) |-> datas[i][k]]

\* _to_tensor: the fields of the records stacked column by column.
ToTensor(datas, name) ==
    LET x == Column(datas, 1)
        y == Column(datas, 2)
        seq_len == Column(datas, 3)
    IN  IF name = "FastText"
        THEN <<<<x, seq_len, Column(datas, 4), Column(datas, 5)>>, y>>
        ELSE IF IsBertName(name)
        THEN <<<<x, seq_len, Column(datas, 4)>>, y>>
        ELSE <<<<x, seq_len>>, y>>

\* The rows of a returned batch, read back as records.
Unstack(b, name) ==
    [i \in 1..Len(b[2]) |->
        IF name = "FastText"
        THEN <<b[1][1][i], b[2][i], b[1][2][i], b[1][3][i], b[1][4][i]>>
        ELSE IF IsBertName(name)
        THEN <<b[1][1][i], b[2][i], b[1][2][i], b[1][3][i]>>
        ELSE <<b[1][1][i], b[2][i], b[1][2][i]>>]

BatchRows(b) == Len(b[2])

NoRet == [kind |-> "none", value |-> <<>>]

IterIdle ==
    /\ batches = <<>> /\ batch_size = 0 /\ n_batches = 0 /\ residue = FALSE
    /\ index = 0 /\ ipc = "idle" /\ ret = NoRet /\ yielded = <<>> /\ passes = <<>>

\* The arguments of the constructor call that is about to happen.
InitIter ==
    /\ model_name \in ModelNames
    /\ \E n \in 1..MaxN : batches = Dataset(model_name, n)
    /\ batch_size \in 1..MaxBatch
    /\ n_batches = 0 /\ residue = FALSE /\ index = 0
    /\ ipc = "new" /\ ret = NoRet /\ yielded = <<>> /\ passes = <<>>

\* len(batches) % self.n_batches != 0, for n_batches > 0.
ResidueCheck(n, nb, b) == n % nb # 0

\* DatasetIterater.__init__
Construct ==
    /\ ipc = "new"
    /\ LET nb == Len(batches) \div batch_size
       IN  /\ n_batches' = nb
           /\ IF nb = 0
              THEN \* len(batches) % 0 raises: residue is False by then, and
                   \* self.index is never assigned.
                   /\ residue' = FALSE
                   /\ ipc' = "ZeroDivisionError"
                   /\ UNCHANGED index
              ELSE /\ residue' = ResidueCheck(Len(batches), nb, batch_size)
                   /\ ipc' = "ready"
                   /\ index' = 0
    /\ UNCHANGED <<batches, batch_size, ret, yielded, passes>>
    /\ UNCHANGED notIter

\* The index at which __next__ raises StopIteration instead of slicing.
\* (the variant that stops one call earlier: i >= nb)
StopAtLast(i, nb) == i >= nb
StopCheck(i, nb) == i > nb

\* The cursor after StopIteration.
\* (the variant that leaves the cursor where it is)
KeepIndex(i) == i
ResetIndex(i) == 0

\* DatasetIterater.__next__, first branch: the remainder batch.
NextResidue ==
    /\ ipc = "ready" /\ Len(passes) < MaxPasses
    /\ residue /\ index = n_batches
    /\ LET b == ToTensor(Slice(batches, index * batch_size, Len(batches)), model_name)
       IN  /\ ret' = [kind |-> "batch", value |-> b]
           /\ yielded' = Append(yielded, b)
    /\ index' = index + 1
    /\ UNCHANGED <<batches, batch_size, n_batches, residue, ipc, passes>>
    /\ UNCHANGED notIter

\* DatasetIterater.__next__, second branch: exhaustion.
NextStop ==
    /\ ipc = "ready" /\ Len(passes) < MaxPasses
    /\ ~(residue /\ index = n_batches)
    /\ StopCheck(index, n_batches)
    /\ index' = ResetIndex(index)
    /\ ret' = [kind |-> "StopIteration", value |-> <<>>]
    /\ passes' = Append(passes, yielded)
    /\ yielded' = <<>>
    /\ UNCHANGED <<batches, batch_size, n_batches, residue, ipc>>
    /\ UNCHANGED notIter

\* DatasetIterater.__next__, last branch: a slice of batch_size records.
NextBatch ==
    /\ ipc = "ready" /\ Len(passes) < MaxPasses
    /\ ~(residue /\ index = n_batches)
    /\ ~StopCheck(index, n_batches)
    /\ LET b == ToTensor(Slice(batches, index * batch_size, (index + 1) * batch_size),
                         model_name)
       IN  /\ ret' = [kind |-> "batch", value |-> b]
           /\ yielded' = Append(yielded, b)
    /\ index' = index + 1
    /\ UNCHANGED <<batches, batch_size, n_batches, residue, ipc, passes>>
    /\ UNCHANGED notIter

\* DatasetIterater.__len__
IterLen == IF residue THEN n_batches + 1 ELSE n_batches


(***************************************************************************)
(* Text: a string is a sequence of one-character strings.                  *)
(***************************************************************************)
Whitespace == {" ", "\t", "\n"}

RECURSIVE LStrip(_)
LStrip(s) == IF s # <<>> /\ Head(s) \in Whitespace THEN LStrip(Tail(s)) ELSE s

RECURSIVE RStrip(_)
RStrip(s) ==
    IF s # <<>> /\ s[Len(s)] \in Whitespace THEN RStrip(SubSeq(s, 1, Len(s) - 1)) ELSE s

\* str.strip()
Strip(s) == LStrip(RStrip(s))

\* The position of the first sep in s, or 0.
RECURSIVE FindFrom(_, _, _)
FindFrom(s, sep, i) ==
    IF i > Len(s) THEN 0 ELSE IF s[i] = sep THEN i ELSE FindFrom(s, sep, i + 1)

\* str.split(sep) for a one-character sep: at least one piece, empty pieces kept.
RECURSIVE SplitOn(_, _)
SplitOn(s, sep) ==
    LET k == FindFrom(s, sep, 1)
    IN  IF k = 0 THEN <<s>>
        ELSE <<SubSeq(s, 1, k - 1)>> \o SplitOn(SubSeq(s, k + 1, Len(s)), sep)

\* The Python str of a sequence of characters.
RECURSIVE Join(_)
Join(cs) == IF cs = <<>> THEN "" ELSE Head(cs) \o Join(Tail(cs))

UNK == "<UNK>"
PAD == "<PAD>"
CLS == "[CLS]"
UNKChars == <<"<", "U", "N", "K", ">">>
PADChars == <<"<", "P", "A", "D", ">">>

\* build_dataset's tokenizer: x.split(' ') or [y for y in x].
Tokenizer(word_level, x) ==
    IF word_level
    THEN LET ps == SplitOn(x, " ") IN [i \in 1..Len(ps) |-> Join(ps[i])]
    ELSE x

(***************************************************************************)
(* build_vocab                                                             *)
(***************************************************************************)
\* vocab_dict[word] = vocab_dict.get(word, 0) + 1, on the items of the dict in
\* insertion order.
CountWord(d, w) ==
    IF \E i \in 1..Len(d) : d[i][1] = w
    THEN [i \in 1..Len(d) |-> IF d[i][1] = w THEN <<w, d[i][2] + 1>> ELSE d[i]]
    ELSE Append(d, <<w, 1>>)

RECURSIVE CountWords(_, _)
CountWords(d, ws) ==
    IF ws = <<>> THEN d ELSE CountWords(CountWord(d, Head(ws)), Tail(ws))

\* One iteration of the loop over the lines of the corpus file.
ScanOne(d, word_level, line) ==
    LET l == Strip(line)
    IN  IF l = <<>> THEN d
        ELSE CountWords(d, Tokenizer(word_level, SplitOn(l, "\t")[1]))

RECURSIVE ScanAll(_, _, _)
ScanAll(d, word_level, ls) ==
    IF ls = <<>> THEN d ELSE ScanAll(ScanOne(d, word_level, Head(ls)), word_level, Tail(ls))

\* [item for item in vocab_dict.items() if item[1] >= min_freq]
FilterFreq(d, mf) == SelectSeq(d, LAMBDA item : item[2] >= mf)

\* sorted(..., key=lambda x: x[1], reverse=True): stable, so items of equal
\* count keep their order.
InsertDesc(s, item) ==
    LET after == {i \in 1..Len(s) : s[i][2] >= item[2]}
        k == Cardinality(after)
    IN  SubSeq(s, 1, k) \o <<item>> \o SubSeq(s, k + 1, Len(s))

RECURSIVE SortDesc(_)
SortDesc(s) ==
    IF s = <<>> THEN <<>>
    ELSE InsertDesc(SortDesc(SubSeq(s, 1, Len(s) - 1)), s[Len(s)])

\* Lines 28-39: the mapping build_vocab returns for the counted items d.
VocabOf(d, ms, mf) ==
    LET vocab_list == Slice(SortDesc(FilterFreq(d, mf)), 0, ms)
        k == Len(vocab_list)
        words == {vocab_list[i][1] : i \in 1..k}
        idx(w) == (CHOOSE i \in 1..k : vocab_list[i][1] = w) - 1
    IN  \* update({UNK: len(vocab_dict), PAD: len(vocab_dict) + 1}): both
        \* lengths are taken before either key is written.
        [w \in words \union {UNK, PAD} |->
            IF w = UNK THEN k ELSE IF w = PAD THEN k + 1 ELSE idx(w)]


MaxLineChunks == 2  \* pieces per corpus line given to build_vocab
MaxLines == 3       \* corpus lines build_vocab reads
MaxVocab == 2       \* largest small max_size tried
MaxMinFreq == 2     \* largest min_freq tried
MAX_VOCAB_SIZE == 10000

\* All texts made of at most n pieces.
Texts(pieces, n) == {Flatten(cs) : cs \in UNION {[1..k -> pieces] : k \in 0..n}}

\* Corpus lines: letters, the two reserved markers written out, blanks, tabs.
VocabPieces == {<<"a">>, UNKChars, PADChars, <<" ">>, <<"\t">>}
VocabLines == {t \o <<"\n">> : t \in Texts(VocabPieces, MaxLineChunks)}

VocabIdle ==
    /\ max_size = 0 /\ min_freq = 0 /\ corpus = <<>> /\ vocab_dict = <<>> /\ vpc = "idle"

InitVocab ==
    /\ ues_word \in BOOLEAN
    /\ max_size = 0 /\ min_freq = 0
    /\ corpus = <<>> /\ vocab_dict = <<>> /\ vocab = <<>> /\ vpc = "scan"

\* build_vocab, lines 20-26: the loop body, for the next line of the file.
ScanLine ==
    /\ vpc = "scan" /\ Len(corpus) < MaxLines
    /\ \E line \in VocabLines :
          /\ corpus' = Append(corpus, line)
          /\ vocab_dict' = ScanOne(vocab_dict, ues_word, line)
    /\ UNCHANGED <<max_size, min_freq, vpc, vocab, ues_word>>
    /\ UNCHANGED notVocab

\* build_vocab, lines 28-39, once the file is read: max_size and min_freq are
\* the call's arguments, first read here.
BuildVocab ==
    /\ vpc = "scan"
    /\ \E ms \in (0..MaxVocab) \union {MAX_VOCAB_SIZE}, mf \in 1..MaxMinFreq :
          /\ max_size' = ms /\ min_freq' = mf
          /\ vocab' = VocabOf(vocab_dict, ms, mf)
    /\ vpc' = "built"
    /\ UNCHANGED <<corpus, vocab_dict, ues_word>>
    /\ UNCHANGED notVocab

(***************************************************************************)
(* The encoders                                                            *)
(***************************************************************************)
MaxContentChunks == 2   \* pieces in the text field of a data line
MaxPad == 2             \* largest config.pad_size
MaxRecords == 2         \* data lines an encoder reads
MaxTokens == 2          \* tokens the sub-word tokenizer returns for a line
MaxBuckets == 5         \* config.n_gram_vocab
BigramPrime == 14918087
TrigramPrime == 18408749

\* Data lines: a text field, then nothing, a label, a non-numeric label or two
\* fields.
DataPieces == {<<"a">>, <<"b">>, <<" ">>}
DataTails == {<<>>, <<"\t", "1">>, <<"\t", "a">>, <<"\t", "1", "\t", "0">>}
DataLines ==
    {c \o t \o <<"\n">> : c \in Texts(DataPieces, MaxContentChunks), t \in DataTails}

Digit ==
    ("0" :> 0) @@ ("1" :> 1) @@ ("2" :> 2) @@ ("3" :> 3) @@ ("4" :> 4) @@
    ("5" :> 5) @@ ("6" :> 6) @@ ("7" :> 7) @@ ("8" :> 8) @@ ("9" :> 9)

\* int(label) succeeds: blanks around decimal digits.
IntOk(label) ==
    LET t == Strip(label)
    IN  t # <<>> /\ \A i \in 1..Len(t) : t[i] \in DOMAIN Digit

RECURSIVE IntOfDigits(_)
IntOfDigits(t) ==
    IF t = <<>> THEN 0
    ELSE 10 * IntOfDigits(SubSeq(t, 1, Len(t) - 1)) + Digit[t[Len(t)]]

IntOf(label) == IntOfDigits(Strip(label))

\* A list element of `token`: a str from the tokenizer, or an int.
StrTok(w) == [str |-> TRUE, s |-> w, i |-> 0]
IntTok(n) == [str |-> FALSE, s |-> "", i |-> n]

\* vocab.get(word, vocab.get(UNK)): the keys of vocab are strs.
VocabGet(v, word) ==
    IF word.str /\ word.s \in DOMAIN v THEN v[word.s] ELSE v[UNK]

\* What line 80 appends to token when it is shorter than pad_size.
PadItem(v) == IntTok(v[PAD])

\* Lines 76-84: the padded or cut token list and seq_len.
PadTokens(v, token, ps) ==
    IF ps # 0
    THEN IF Len(token) < ps
         THEN <<token \o Repeat(PadItem(v), ps - Len(token)), Len(token)>>
         ELSE <<Slice(token, 0, ps), ps>>
    ELSE <<token, Len(token)>>

\* (a * b) % m on Python's unbounded ints, kept within machine integers.
MulMod(a, b, m) == ((a % m) * (b % m)) % m

\* sequence[t - k] if t - k >= 0 else 0, for 0-based t.
Prev(sequence, t, k) == IF t - k >= 0 THEN sequence[t - k + 1] ELSE 0

biGramHash(sequence, t, bk) == MulMod(Prev(sequence, t, 1), BigramPrime, bk)

triGramHash(sequence, t, bk) ==
    (MulMod(MulMod(Prev(sequence, t, 2), BigramPrime, bk), TrigramPrime, bk)
        + MulMod(Prev(sequence, t, 1), BigramPrime, bk)) % bk

\* Lines 76-103: the record for the text and label of one line.
GenericRecord(v, word_level, name, ps, bk, content, label) ==
    LET toks == Tokenizer(word_level, content)
        token == [i \in 1..Len(toks) |-> StrTok(toks[i])]
        padded == PadTokens(v, token, ps)
        words_line == [i \in 1..Len(padded[1]) |-> VocabGet(v, padded[1][i])]
    IN  IF name = "FastText"
        THEN <<words_line, IntOf(label), padded[2],
               [i \in 1..ps |-> biGramHash(words_line, i - 1, bk)],
               [i \in 1..ps |-> triGramHash(words_line, i - 1, bk)]>>
        ELSE <<words_line, IntOf(label), padded[2]>>

\* The sub-word tokenizer: tokenize returns some list of word pieces, and
\* convert_tokens_to_ids returns one id per token.
BertTokens == {"a", "[PAD]"}
BertTokenLists == UNION {[1..k -> BertTokens] : k \in 0..MaxTokens}
BertVocab == (CLS :> 101) @@ ("a" :> 1037) @@ ("[PAD]" :> 0)
ConvertTokensToIds(token) == [i \in 1..Len(token) |-> BertVocab[token[i]]]

\* Lines 129-136: mask and token_ids.
\* (the variant whose mask is not cut to pad_size: [1] * len(token_ids))
BertMaskUncut(n_ids, n_tok, ps) ==
    IF ps # 0
    THEN IF n_tok < ps THEN Repeat(1, n_ids) \o Repeat(0, ps - n_tok) ELSE Repeat(1, n_ids)
    ELSE <<>>

BertMask(n_ids, n_tok, ps) ==
    IF ps # 0
    THEN IF n_tok < ps THEN Repeat(1, n_ids) \o Repeat(0, ps - n_tok) ELSE Repeat(1, ps)
    ELSE <<>>

BertIds(token_ids, n_tok, ps) ==
    IF ps # 0
    THEN IF n_tok < ps THEN token_ids \o Repeat(0, ps - n_tok) ELSE Slice(token_ids, 0, ps)
    ELSE token_ids

\* Lines 124-137: the record for the tokens and label of one line.
BertRecord(toks, ps, label) ==
    LET token == <<CLS>> \o toks
        seq_len == Len(token)
        token_ids == ConvertTokensToIds(token)
    IN  <<BertIds(token_ids, Len(token), ps), IntOf(label), seq_len,
          BertMask(Len(token_ids), Len(token), ps)>>

EncIdle ==
    /\ kind = "idle" /\ pad_size = 0 /\ buckets = 0 /\ contents = <<>> /\ inputs = <<>>
    /\ epc = "idle"

\* build_dataset: the vocabulary is build_vocab's for the training file (or an
\* earlier run's, unpickled); then load_dataset runs.
InitGeneric ==
    /\ kind = "generic"
    /\ ues_word \in BOOLEAN
    /\ model_name \in {"TextCNN", "FastText"}
    /\ \E tl \in DataLines :
          vocab = VocabOf(ScanAll(<<>>, ues_word, <<tl>>), MAX_VOCAB_SIZE, 1)
    /\ buckets \in {1, MaxBuckets}

\* build_dataset_bert: no vocabulary of its own, no n-gram buckets.
InitBert ==
    /\ kind = "bert"
    /\ ues_word = FALSE
    /\ model_name = "bert"
    /\ vocab = <<>>
    /\ buckets = 0

InitEncode(which) ==
    /\ which
    /\ pad_size \in 0..MaxPad
    /\ contents = <<>> /\ inputs = <<>> /\ epc = "load"

\* content, label = line.split('\t') and int(label) both succeed.
WellFormed(l) == Len(SplitOn(l, "\t")) = 2 /\ IntOk(SplitOn(l, "\t")[2])

\* build_dataset.load_dataset, lines 70-103: the loop body for the next line.
LoadGeneric ==
    /\ kind = "generic" /\ epc = "load" /\ Len(contents) < MaxRecords
    /\ \E line \in DataLines :
          LET l == Strip(line)
              parts == SplitOn(l, "\t")
          IN  IF l = <<>> THEN UNCHANGED <<contents, inputs, epc>>
              ELSE IF ~WellFormed(l)
              THEN epc' = "ValueError" /\ UNCHANGED <<contents, inputs>>
              ELSE /\ contents' = Append(contents,
                        GenericRecord(vocab, ues_word, model_name, pad_size, buckets,
                                      parts[1], parts[2]))
                   /\ inputs' = Append(inputs, line)
                   /\ UNCHANGED epc
    /\ UNCHANGED <<kind, pad_size, buckets, ues_word, vocab, model_name>>
    /\ UNCHANGED notEncode

\* build_dataset_bert.load_dataset, lines 117-137: the loop body for the next line.
LoadBert ==
    /\ kind = "bert" /\ epc = "load" /\ Len(contents) < MaxRecords
    /\ \E line \in DataLines :
          LET l == Strip(line)
              parts == SplitOn(l, "\t")
          IN  IF l = <<>> THEN UNCHANGED <<contents, inputs, epc>>
              ELSE IF ~WellFormed(l)
              THEN epc' = "ValueError" /\ UNCHANGED <<contents, inputs>>
              ELSE \E toks \in BertTokenLists :
                      /\ contents' = Append(contents,
                                            BertRecord(toks, pad_size, parts[2]))
                      /\ inputs' = Append(inputs, toks)
                      /\ UNCHANGED epc
    /\ UNCHANGED <<kind, pad_size, buckets, ues_word, vocab, model_name>>
    /\ UNCHANGED notEncode

(***************************************************************************)
(* The specifications                                                      *)
(***************************************************************************)
InitI ==
    /\ InitIter /\ VocabIdle /\ EncIdle
    /\ ues_word = FALSE /\ vocab = <<>>

NextI == Construct \/ NextResidue \/ NextStop \/ NextBatch

SpecIter == InitI /\ [][NextI]_vars

InitV == InitVocab /\ IterIdle /\ EncIdle /\ model_name = "TextCNN"

NextV == ScanLine \/ BuildVocab

SpecVocab == InitV /\ [][NextV]_vars

InitE == InitEncode(InitGeneric) /\ IterIdle /\ VocabIdle

NextE == LoadGeneric

SpecEncode == InitE /\ [][NextE]_vars

InitB == InitEncode(InitBert) /\ IterIdle /\ VocabIdle

NextB == LoadBert

SpecBert == InitB /\ [][NextB]_vars


(***************************************************************************)
(* Properties of the batch iterator (SpecIter)                             *)
(***************************************************************************)
DatasetSize == Len(batches)
FullBatches == DatasetSize \div batch_size
Remainder == DatasetSize % batch_size

\* The record counts of the batches of a pass.
PassSizes(p) == [i \in 1..Len(p) |-> BatchRows(p[i])]

\* The records of a pass, in yield order.
PassRecords(p) == Flatten([i \in 1..Len(p) |-> Unstack(p[i], model_name)])

\* C1: for 1 <= batch_size <= N, the batches of every pass that ran from
\* cursor 0 to StopIteration hold N records in all, and their rows, in yield
\* order, are the dataset in its original order.
C1_AllRecordsOnce ==
    \A k \in 1..Len(passes) :
        batch_size <= DatasetSize =>
            /\ SumSeq(PassSizes(passes[k])) = DatasetSize
            /\ PassRecords(passes[k]) = batches

\* A pass over 10 records in batches of 3 has ended.
C1_Witness ==
    /\ Len(passes) >= 1 /\ DatasetSize = 10 /\ batch_size = 3
    /\ ret.kind = "StopIteration"

\* C2: for 1 <= batch_size <= N, __len__ is floor(N / b) + 1 when N mod b # 0
\* and floor(N / b) when N mod b = 0.
C2_LenContract ==
    (ipc = "ready" /\ batch_size <= DatasetSize) =>
        IterLen = (IF Remainder # 0 THEN FullBatches + 1 ELSE FullBatches)

\* C3: a pass yields floor(N / b) batches of b records, then one batch of
\* N mod b records only when N mod b # 0, then StopIteration; no batch that
\* is yielded is empty.
C3_BatchSizes ==
    /\ \A i \in 1..Len(yielded) : BatchRows(yielded[i]) > 0
    /\ \A k \in 1..Len(passes) :
          PassSizes(passes[k]) =
              Repeat(batch_size, FullBatches)
                  \o (IF Remainder # 0 THEN <<Remainder>> ELSE <<>>)

\* C4: constructing with a batch size larger than the dataset does not raise,
\* and a pass then yields all N records as one batch.
C4_NoDivisionFault ==
    (batch_size > DatasetSize /\ ipc # "new") =>
        /\ ipc = "ready"
        /\ \A k \in 1..Len(passes) : passes[k] = <<ToTensor(batches, model_name)>>

\* C9: when __next__ raises StopIteration the cursor is 0 again, and every
\* later pass yields the batches of the first pass and ends with one
\* StopIteration (no pass is empty: StopIteration is not raised twice in a row).
C9_Restart ==
    /\ ret.kind = "StopIteration" => index = 0
    /\ \A k \in 1..Len(passes) : passes[k] = passes[1] /\ passes[k] # <<>>

\* Two passes have ended, each of several batches with a remainder batch.
C9_Witness ==
    /\ Len(passes) >= 2 /\ Len(passes[2]) >= 3 /\ Remainder # 0
    /\ ret.kind = "StopIteration"

(***************************************************************************)
(* Properties of build_vocab (SpecVocab)                                   *)
(***************************************************************************)
VocabSize == Cardinality(DOMAIN vocab)

\* C5: the ids of the mapping build_vocab returns are pairwise distinct and
\* are exactly 0..size-1, there are at most max_size + 2 entries, and the
\* unknown-token marker has id size-2 and the padding marker id size-1.
C5_VocabIds ==
    vpc = "built" =>
        /\ \A a, b \in DOMAIN vocab : a # b => vocab[a] # vocab[b]
        /\ {vocab[w] : w \in DOMAIN vocab} = 0..(VocabSize - 1)
        /\ VocabSize <= max_size + 2
        /\ vocab[UNK] = VocabSize - 2
        /\ vocab[PAD] = VocabSize - 1

\* The text before the first tab of a line, the line taken without the
\* whitespace and line terminator around it.
TextField(line) == SplitOn(Strip(line), "\t")[1]

\* The tokens of the text fields of the non-blank lines read.
CorpusTokens ==
    Flatten([i \in 1..Len(corpus) |->
        IF Strip(corpus[i]) = <<>> THEN <<>>
        ELSE Tokenizer(ues_word, TextField(corpus[i]))])

Freq(w) == Cardinality({i \in 1..Len(CorpusTokens) : CorpusTokens[i] = w})

\* The tokens the claim is about: those that are not a reserved marker.
Eligible ==
    {w \in {CorpusTokens[i] : i \in 1..Len(CorpusTokens)} \ {UNK, PAD} :
        Freq(w) >= min_freq}

Kept == DOMAIN vocab \ {UNK, PAD}

\* C10: build_vocab keeps min(max_size, number of tokens of frequency >=
\* min_freq) tokens, none of frequency below min_freq, numbered in
\* non-increasing frequency order, and no token cut by max_size is more
\* frequent than a token kept; frequencies are those of the text before the
\* first tab of each non-blank line.
C10_MostFrequentKept ==
    vpc = "built" =>
        /\ Cardinality(Kept) = Min(max_size, Cardinality(Eligible))
        /\ \A w \in Kept : Freq(w) >= min_freq
        /\ \A a, b \in Kept : vocab[a] < vocab[b] => Freq(a) >= Freq(b)
        /\ \A w \in Eligible \ Kept : \A k \in Kept : Freq(w) <= Freq(k)

(***************************************************************************)
(* Properties of the encoders (SpecEncode, SpecBert)                       *)
(***************************************************************************)
\* The tokens of the text field of the line record k was made from.
LineTokens(k) == Tokenizer(ues_word, SplitOn(Strip(inputs[k]), "\t")[1])

\* C6: in the generic encoder with pad size P > 0, a line of n < P tokens gets
\* the padding marker's id at positions n..P-1, its own tokens' ids (the
\* unknown-token id for a token not in the vocabulary) at positions 0..n-1,
\* and true length n.
C6_PadId ==
    (kind = "generic" /\ pad_size > 0) =>
        \A k \in 1..Len(contents) :
            LET toks == LineTokens(k)
                n == Len(toks)
                r == contents[k]
            IN  n < pad_size =>
                    /\ Len(r[1]) = pad_size
                    /\ \A i \in (n + 1)..pad_size : r[1][i] = vocab[PAD]
                    /\ \A i \in 1..n :
                          r[1][i] = (IF toks[i] \in DOMAIN vocab
                                     THEN vocab[toks[i]] ELSE vocab[UNK])
                    /\ r[3] = n

\* C7: with pad size P > 0, every record of either encoder has an id sequence
\* of length P and a true length of at most P.
C7_FixedLength ==
    pad_size > 0 =>
        \A k \in 1..Len(contents) :
            Len(contents[k][1]) = pad_size /\ contents[k][3] <= pad_size

\* C8: in the sub-word encoder with pad size P > 0, mask and ids both have
\* length P, the mask is m ones then P - m zeros for m = min(token count with
\* the classification marker, P), and ids are 0 wherever the mask is 0.
C8_BertMask ==
    (kind = "bert" /\ pad_size > 0) =>
        \A k \in 1..Len(contents) :
            LET r == contents[k]
                m == Min(Len(inputs[k]) + 1, pad_size)
            IN  /\ Len(r[1]) = pad_size
                /\ Len(r[4]) = pad_size
                /\ r[4] = Repeat(1, m) \o Repeat(0, pad_size - m)
                /\ \A i \in 1..pad_size : r[4][i] = 0 => r[1][i] = 0

\* Two sub-word records, one padded and one cut to the pad size.
C8_Witness ==
    /\ kind = "bert" /\ pad_size > 0 /\ Len(contents) >= 2
    /\ Len(inputs[1]) + 1 < pad_size
    /\ Len(inputs[2]) + 1 > pad_size

=============================================================================
